---------------------------- MODULE Spec2Model ----------------------------
(* Power Supps storefront (src/app.py): the session cart, the shipping   *)
(* quote and the checkout that turns the cart into Pedido / Endereco /   *)
(* ItemPedido rows.  Money is counted in centavos (250.00 = 25000).      *)
(* One browser session is modelled; every request runs to completion.    *)
EXTENDS Integers, Sequences, FiniteSets, TLC

VARIABLES
    session,    \* the Flask session: a dict whose keys may be absent
    usuarios,   \* table usuario: sequence of rows, id = position
    produtos,   \* table produto: id -> row, ids of deleted rows are absent
    pedidos,    \* table pedido: sequence of rows, id = position
    enderecos,  \* table endereco: sequence of rows, id = position
    itens,      \* table item_pedido: (pedido_id, produto_id) -> number of rows
    avaliacoes, \* table avaliacao: sequence of rows, id = position
    pendentes,  \* checkout requests being handled: request -> its position
    last        \* the request handled last: its inputs and its response

vars == <<session, usuarios, produtos, pedidos, enderecos, itens, avaliacoes, pendentes, last>>
db   == <<usuarios, produtos, pedidos, enderecos, itens, avaliacoes>>

-----------------------------------------------------------------------------
(* Bounds of the model *)
MaxProdutos == 2    \* product ids are 1..MaxProdutos
MaxUnidades == 2    \* the cart holds at most MaxUnidades units in all
MaxPedidos  == 1    \* at most MaxPedidos committed orders
MaxHistorico  == 2  \* the same, where the order history is studied
MaxAvaliacoes == 2  \* at most MaxAvaliacoes reviews
MaxAvaliacoesHistorico == 1  \* the same, where the order history is studied
MaxSimultaneas == 2  \* checkout requests handled at the same time

(* Constants of the program *)
FRETE_MINIMO == 25000
FRETE_PADRAO == 1990
FRETE_MINIMO_CARRINHO == 25000
CEP_MIN      == 8

Nomes  == {"ana", "bia"}
Senha  == "s3nh4"
Precos == {12500}
NomesProduto == {"whey", "bcaa"}
Ids    == 1..MaxProdutos

-----------------------------------------------------------------------------
(* Python values *)

\* a form value: None when the field is absent, else a string (of characters)
None       == [nulo |-> TRUE,  txt |-> <<>>]
Texto(s)   == [nulo |-> FALSE, txt |-> s]
Truthy(v)  == ~v.nulo /\ Len(v.txt) > 0

\* dict keys: the int 1 and the str "1" are different keys
StrKey(n)  == [t |-> "str", v |-> n]
IntKey(n)  == [t |-> "int", v |-> n]
ToInt(k)   == k.v

EmptyDict        == [k \in {} |-> 0]
DictGet(d, k, x) == IF k \in DOMAIN d THEN d[k] ELSE x
DictSet(d, k, x) == [j \in DOMAIN d \cup {k} |-> IF j = k THEN x ELSE d[j]]
DictDel(d, k)    == [j \in DOMAIN d \ {k} |-> d[j]]


Digitos(n) == [i \in 1..n |-> "0"]

-----------------------------------------------------------------------------
(* The session dict *)
Get(s, k, d) == IF k \in DOMAIN s THEN s[k] ELSE d
Put(s, k, x) == [j \in DOMAIN s \cup {k} |-> IF j = k THEN x ELSE s[j]]
\* variant: the whole session is dropped
Pop_Mut(s, k) == EmptyDict
\* session.pop(k, None)
Pop(s, k)    == [j \in DOMAIN s \ {k} |-> s[j]]

\* variant: no request asks for a login
Logado_Mut(s) == TRUE

Logado(s)    == "usuario" \in DOMAIN s
Cart(s)      == Get(s, "carrinho", EmptyDict)

\* the units in a cart (what the guards of the model bound)
RECURSIVE Qtd(_, _)
Qtd(c, K)    == IF K = {} THEN 0
                ELSE LET k == CHOOSE x \in K : TRUE IN c[k] + Qtd(c, K \ {k})
Cheio(s)     == Qtd(Cart(s), DOMAIN Cart(s)) >= MaxUnidades

-----------------------------------------------------------------------------
(* The database *)

\* Produto.query.get(x): SQLite compares the INTEGER key with the bound
\* value under numeric affinity, so the str "1" finds the row with id 1
SqlInt(k)           == k.v
\* NULL in an INTEGER column (the ids start at 1)
SqlNull             == 0
ProdutoExiste(p, n) == n \in DOMAIN p

\* Usuario.query.filter_by(nome=..).first(): the id of the row, 0 for None
UsuarioId(us, nome) ==
    IF \E i \in 1..Len(us) : us[i].nome = nome
    THEN CHOOSE i \in 1..Len(us) : us[i].nome = nome
    ELSE 0

\* an INTEGER PRIMARY KEY without AUTOINCREMENT: the largest id in use + 1
Max(S)       == CHOOSE x \in S : \A y \in S : y <= x
NovoId(p)    == IF DOMAIN p = {} THEN 1 ELSE Max(DOMAIN p) + 1

\* total += produto.preco * quantidade, over the entries whose product exists
RECURSIVE SomaLinhas(_, _, _)
SomaLinhas(c, p, K) ==
    IF K = {} THEN 0
    ELSE LET k == CHOOSE x \in K : TRUE
         IN  (IF ProdutoExiste(p, ToInt(k)) THEN p[ToInt(k)].preco * c[k] ELSE 0)
             + SomaLinhas(c, p, K \ {k})

\* the total of the cart page
TotalCarrinho(c, p) == SomaLinhas(c, p, DOMAIN c)

-----------------------------------------------------------------------------
(* Inputs of the requests *)
Senhas == {Senha, "errada"}
Acoes  == {"mais", "menos", "outra"}
Ceps   == { None,
            Texto(<<>>),
            Texto(Digitos(CEP_MIN - 1)),
            Texto(Digitos(CEP_MIN)),
            Texto(Digitos(CEP_MIN - 1) \o <<" ">>) }

Req(op, resp, out) == [op |-> op, resp |-> resp, out |-> out]

\* the threads of the server that can handle a checkout, and one at rest
Simultaneas == 1..MaxSimultaneas
Parado      == [pc |-> "parado"]

\* the accounts registered through /cadastro before the session starts
Contas == <<[nome |-> "ana", senha |-> Senha], [nome |-> "bia", senha |-> Senha]>>

-----------------------------------------------------------------------------
Init ==
    /\ session   = EmptyDict
    /\ usuarios  = Contas
    /\ produtos  = EmptyDict
    /\ pedidos   = <<>>
    /\ enderecos = <<>>
    /\ itens     = EmptyDict
    /\ avaliacoes = <<>>
    /\ pendentes = [i \in Simultaneas |-> Parado]
    /\ last      = Req("init", "-", <<>>)

-----------------------------------------------------------------------------
(* Accounts *)

\* POST /login
Login(nome, senha) ==
    /\ UNCHANGED pendentes
    /\ UNCHANGED db
    /\ IF \E i \in 1..Len(usuarios) : usuarios[i].nome = nome /\ usuarios[i].senha = senha
       THEN /\ session' = Put(session, "usuario", nome)
            /\ last' = Req("login", "index", <<>>)
       ELSE /\ UNCHANGED session
            /\ last' = Req("login", "login", <<>>)

\* GET /logout
Logout ==
    /\ UNCHANGED pendentes
    /\ UNCHANGED db
    /\ session' = Pop(session, "usuario")
    /\ last' = Req("logout", "index", <<>>)

-----------------------------------------------------------------------------
(* Cart *)

\* variant: the entry is set to 1, whatever it held
Incrementado_Mut(carrinho, id_str) == DictSet(carrinho, id_str, 1)

\* carrinho[id_str] = carrinho.get(id_str, 0) + 1
Incrementado(carrinho, id_str) == DictSet(carrinho, id_str, DictGet(carrinho, id_str, 0) + 1)

\* GET /adicionar_ao_carrinho/<id>
AdicionarAoCarrinho(id) ==
    /\ Logado(session) => ~Cheio(session)
    /\ UNCHANGED pendentes
    /\ UNCHANGED db
    /\ IF ~Logado(session)
       THEN /\ UNCHANGED session
            /\ last' = Req("add", "login", <<>>)
       ELSE LET carrinho == Cart(session)
                id_str   == StrKey(id)
            IN  /\ session' = Put(session, "carrinho", Incrementado(carrinho, id_str))
                /\ last' = Req("add", "index", <<>>)

\* variant: every action other than "menos" adds one
Alterado_Outra(carrinho, k, acao) ==
    IF k \notin DOMAIN carrinho THEN carrinho
    ELSE IF acao = "menos"
         THEN IF carrinho[k] - 1 <= 0
              THEN DictDel(carrinho, k)
              ELSE DictSet(carrinho, k, carrinho[k] - 1)
    ELSE DictSet(carrinho, k, carrinho[k] + 1)

\* variant: "mais" on a product that is not in the cart creates the entry
Alterado_Cria(carrinho, k, acao) ==
    IF k \notin DOMAIN carrinho
    THEN (IF acao = "mais" THEN DictSet(carrinho, k, 1) ELSE carrinho)
    ELSE IF acao = "mais" THEN DictSet(carrinho, k, carrinho[k] + 1)
    ELSE IF acao = "menos"
         THEN IF carrinho[k] - 1 <= 0
              THEN DictDel(carrinho, k)
              ELSE DictSet(carrinho, k, carrinho[k] - 1)
    ELSE carrinho

\* variant: the entry is deleted only below zero
Alterado_Mut(carrinho, k, acao) ==
    IF k \notin DOMAIN carrinho THEN carrinho
    ELSE IF acao = "mais" THEN DictSet(carrinho, k, carrinho[k] + 1)
    ELSE IF acao = "menos"
         THEN IF carrinho[k] - 1 < 0
              THEN DictDel(carrinho, k)
              ELSE DictSet(carrinho, k, carrinho[k] - 1)
    ELSE carrinho

\* the cart after the branch of alterar_quantidade for acao
Alterado(carrinho, k, acao) ==
    IF k \notin DOMAIN carrinho THEN carrinho
    ELSE IF acao = "mais" THEN DictSet(carrinho, k, carrinho[k] + 1)
    ELSE IF acao = "menos"
         THEN IF carrinho[k] - 1 <= 0
              THEN DictDel(carrinho, k)
              ELSE DictSet(carrinho, k, carrinho[k] - 1)
    ELSE carrinho

\* the branch of alterar_quantidade that ran
Ramo(carrinho, k, acao) ==
    IF k \notin DOMAIN carrinho THEN "ausente"
    ELSE IF acao = "mais" THEN "mais"
    ELSE IF acao = "menos" THEN (IF carrinho[k] - 1 <= 0 THEN "del" ELSE "menos")
    ELSE "nada"

\* POST /alterar-quantidade/<produto_id>
AlterarQuantidade(produto_id, acao) ==
    /\ (acao = "mais" /\ StrKey(produto_id) \in DOMAIN Cart(session)) => ~Cheio(session)
    /\ UNCHANGED pendentes
    /\ UNCHANGED db
    /\ session' = Put(session, "carrinho", Alterado(Cart(session), StrKey(produto_id), acao))
    /\ last' = Req("alterar", "carrinho", Ramo(Cart(session), StrKey(produto_id), acao))

\* the key remover_do_carrinho looks up: the int of the URL, as it is
ChaveRemover(produto_id) == IntKey(produto_id)

\* POST /remover_do_carrinho/<produto_id>
RemoverDoCarrinho(produto_id) ==
    /\ UNCHANGED pendentes
    /\ UNCHANGED db
    /\ LET carrinho == Cart(session)
           k        == ChaveRemover(produto_id)
       IN  session' = Put(session, "carrinho",
                          IF k \in DOMAIN carrinho THEN DictDel(carrinho, k) ELSE carrinho)
    /\ last' = Req("remover", "carrinho", <<>>)

\* POST /limpar_carrinho
LimparCarrinho ==
    /\ UNCHANGED pendentes
    /\ UNCHANGED db
    /\ session' = Put(session, "carrinho", EmptyDict)
    /\ last' = Req("limpar", "carrinho", <<>>)

\* the rows of the cart page: the entries whose product exists
LinhasCarrinho(c, p) ==
    [k \in {j \in DOMAIN c : ProdutoExiste(p, ToInt(j))} |->
        [quantidade |-> c[k], subtotal |-> p[ToInt(k)].preco * c[k]]]

\* variant: the stored fee is added whatever the subtotal
TotalGeral_Mut(total, s) == total + (IF "frete" \in DOMAIN s THEN s["frete"] ELSE 0)

\* total_geral = total + (frete if frete else 0), frete forced to 0 when
\* the subtotal gives free shipping
TotalGeral(total, s) ==
    LET tem_frete_gratis == total >= FRETE_MINIMO_CARRINHO
        frete == IF tem_frete_gratis THEN 0
                 ELSE IF "frete" \in DOMAIN s THEN s["frete"] ELSE 0
    IN  total + frete

\* GET /carrinho
VerCarrinho ==
    /\ UNCHANGED pendentes
    /\ UNCHANGED <<session, db>>
    /\ IF ~Logado(session)
       THEN last' = Req("carrinho", "login", <<>>)
       ELSE LET carrinho == Cart(session)
                total    == TotalCarrinho(carrinho, produtos)
            IN  last' = Req("carrinho", "carrinho.html",
                            [itens       |-> LinhasCarrinho(carrinho, produtos),
                             total       |-> total,
                             total_geral |-> TotalGeral(total, session)])

-----------------------------------------------------------------------------
(* Shipping *)

\* if not cep or len(cep) < 8
CepInvalido(cep) == ~Truthy(cep) \/ Len(cep.txt) < CEP_MIN

\* variant: free shipping only above the minimum
RegraFrete_Mut(total) == IF total > FRETE_MINIMO THEN 0 ELSE FRETE_PADRAO

\* the fee for a subtotal
RegraFrete(total) == IF total >= FRETE_MINIMO THEN 0 ELSE FRETE_PADRAO

\* POST /calcular_frete
CalcularFrete(cep) ==
    /\ UNCHANGED pendentes
    /\ UNCHANGED db
    /\ IF CepInvalido(cep)
       THEN /\ UNCHANGED session
            /\ last' = Req("frete", "cep_invalido", <<>>)
       ELSE LET carrinho == Cart(session)
                total    == SomaLinhas(carrinho, produtos, DOMAIN carrinho)
                frete    == RegraFrete(total)
            IN  /\ session' = Put(Put(session, "cep_usuario", cep.txt), "frete", frete)
                /\ last' = Req("frete", "calculado", <<>>)

-----------------------------------------------------------------------------
(* Catalog *)

\* POST /adicionar
Adicionar(nome, preco, imagem_ok) ==
    /\ (Logado(session) /\ imagem_ok) => NovoId(produtos) <= MaxProdutos
    /\ UNCHANGED pendentes
    /\ UNCHANGED <<session, usuarios, pedidos, enderecos, itens, avaliacoes>>
    /\ IF ~Logado(session)
       THEN /\ UNCHANGED produtos
            /\ last' = Req("adicionar", "login", <<>>)
       ELSE IF ~imagem_ok
       THEN /\ UNCHANGED produtos
            /\ last' = Req("adicionar", "adicionar", <<>>)
       ELSE /\ produtos' = DictSet(produtos, NovoId(produtos), [nome |-> nome, preco |-> preco])
            /\ last' = Req("adicionar", "index", <<>>)

\* db.session.delete(produto): Produto.avaliacoes is a one-to-many
\* relationship without a delete cascade, so the ORM sets produto_id of the
\* product's reviews to NULL when the product row is deleted
Desvinculadas(av, id) ==
    [i \in 1..Len(av) |->
        IF av[i].produto_id = id THEN [av[i] EXCEPT !.produto_id = SqlNull] ELSE av[i]]

\* POST /excluir/<id>
Excluir(id) ==
    /\ UNCHANGED pendentes
    /\ UNCHANGED <<usuarios, pedidos, enderecos, itens>>
    /\ IF ~Logado(session)
       THEN /\ UNCHANGED <<session, produtos, avaliacoes>>
            /\ last' = Req("excluir", "login", <<>>)
       ELSE IF ~ProdutoExiste(produtos, id)
       THEN /\ UNCHANGED <<session, produtos, avaliacoes>>
            /\ last' = Req("excluir", "404", <<>>)
       ELSE /\ produtos' = DictDel(produtos, id)
            /\ avaliacoes' = Desvinculadas(avaliacoes, id)
            /\ UNCHANGED session
            \* `id in carrinho` compares the int with the str keys; were it
            \* true, dict.remove would raise after the commit
            /\ last' = Req("excluir",
                           IF IntKey(id) \in DOMAIN Cart(session) THEN "erro500" ELSE "index", <<>>)

-----------------------------------------------------------------------------
(* Checkout *)
Campos       == {"cep", "rua", "numero", "complemento", "bairro", "cidade", "estado", "email"}
Obrigatorios == {"cep", "rua", "numero", "bairro", "cidade", "estado", "email"}
Preenchido   == [c \in Campos |-> Texto(<<"x">>)]
Formularios  == {Preenchido} \cup
                {[Preenchido EXCEPT ![c] = x] : c \in Obrigatorios, x \in {None, Texto(<<>>)}}

\* the form as submitted: some required field is absent or empty
FaltaCampo(form) == \E c \in Obrigatorios : form[c] = None \/ form[c] = Texto(<<>>)

\* variant: the e-mail is left out of the check
FormCompleto_Mut(form) == \A c \in Obrigatorios \ {"email"} : Truthy(form[c])

\* not all([cep, rua, numero_endereco, bairro, cidade, estado, email_cliente])
FormCompleto(form) == \A c \in Obrigatorios : Truthy(form[c])

\* which enviar_confirmacao_compra the name is bound to when a request is
\* served: run as a script, app.run() blocks before the second definition;
\* imported by a server, the second definition replaces the first
Modos     == {"script", "import"}
Correio   == {"ok", "erro"}
Excecoes  == {"TypeError", "SMTPException"}

\* the call enviar_confirmacao_compra(nome=, email_destino=, itens=, total=):
\* what it raises ("ok" for a normal return) and whether the message went out
Notifica(modo, mail) ==
    IF modo = "script"
    THEN \* the first definition has no parameters nome and itens
         [exc |-> "TypeError", enviado |-> FALSE]
    ELSE \* the second one catches what mail.send raises
         [exc |-> "ok", enviado |-> (mail = "ok")]

\* variant: only mail errors are caught
ExceptException_Mut(e) == e = "SMTPException"

\* `except Exception` of finalizar_compra
ExceptException(e) == e \in Excecoes

\* total += float(prod.preco) * quantidade
RECURSIVE SomaPedido(_, _, _)
SomaPedido(c, p, K) ==
    IF K = {} THEN 0
    ELSE LET pid == CHOOSE x \in K : TRUE
         IN  (IF ProdutoExiste(p, SqlInt(pid)) THEN p[SqlInt(pid)].preco * c[pid] ELSE 0)
             + SomaPedido(c, p, K \ {pid})

\* for _ in range(quantidade): one row per unit
RECURSIVE Unidades(_, _)
Unidades(c, K) ==
    IF K = {} THEN 0
    ELSE LET pid == CHOOSE x \in K : TRUE
         IN  (IF c[pid] > 0 THEN c[pid] ELSE 0) + Unidades(c, K \ {pid})

\* the entries of the loop for which `if prod:` is false
Pulados(c, p) == Cardinality({pid \in DOMAIN c : ~ProdutoExiste(p, SqlInt(pid))})

\* variant: rows are added without looking the product up
NovosItens_Todos(c, p, pedido_id) ==
    [r \in {<<pedido_id, SqlInt(pid)>> : pid \in DOMAIN c} |->
        Unidades(c, {pid \in DOMAIN c : SqlInt(pid) = r[2]})]

\* variant: one row per cart entry, whatever its quantity
NovosItens_Mut(c, p, pedido_id) ==
    LET achados == {pid \in DOMAIN c : ProdutoExiste(p, SqlInt(pid))}
    IN  [r \in {<<pedido_id, SqlInt(pid)>> : pid \in achados} |->
            Cardinality({pid \in achados : SqlInt(pid) = r[2]})]

\* the ItemPedido rows added for the cart c: (pedido_id, produto_id) -> rows
NovosItens(c, p, pedido_id) ==
    LET achados == {pid \in DOMAIN c : ProdutoExiste(p, SqlInt(pid))}
    IN  [r \in {<<pedido_id, SqlInt(pid)>> : pid \in achados} |->
            Unidades(c, {pid \in achados : SqlInt(pid) = r[2]})]

\* variant: the new order takes the id of the first one
NovoPedidoId_Mut(ps) == 1

\* pedido.id after db.session.commit(): the next row id of the table
NovoPedidoId(ps) == Len(ps) + 1

\* variant: the address is built before the flush gives the order its id
NovoEndereco_SemFlush(form, pedido_id) ==
    [pedido_id       |-> SqlNull,
     cep             |-> form["cep"],
     rua             |-> form["rua"],
     numero_endereco |-> form["numero"],
     complemento     |-> form["complemento"],
     bairro          |-> form["bairro"],
     cidade          |-> form["cidade"],
     estado          |-> form["estado"]]

NovoEndereco(form, pedido_id) ==
    [pedido_id       |-> pedido_id,
     cep             |-> form["cep"],
     rua             |-> form["rua"],
     numero_endereco |-> form["numero"],
     complemento     |-> form["complemento"],
     bairro          |-> form["bairro"],
     cidade          |-> form["cidade"],
     estado          |-> form["estado"]]

\* variant: the cart is not cleared
SessaoAposCompra_Mantem(s) == s

\* variant: the checkout also drops the stored quote
SessaoAposCompra_Reset(s) == Pop(Pop(Put(s, "carrinho", EmptyDict), "frete"), "cep_usuario")

\* session['carrinho'] = {} after the commit
SessaoAposCompra(s) == Put(s, "carrinho", EmptyDict)

\* variant: the query is not filtered by the user
PedidosDe_Todos(ps, usuario_id) == 1..Len(ps)

\* Pedido.query.filter_by(usuario_id=usuario.id): the ids of the rows
PedidosDe(ps, usuario_id) == {n \in 1..Len(ps) : ps[n].usuario_id = usuario_id}

\* variant: a failed commit leaves the flushed Pedido row behind
AposCommit_Parcial(ok, antes, depois) ==
    IF ok THEN depois ELSE <<depois[1], antes[2], antes[3]>>

\* db.session.commit() of the tables <<pedido, endereco, item_pedido>>: when
\* it raises, the handler is left and the teardown of the request rolls the
\* transaction back
AposCommit(ok, antes, depois) == IF ok THEN depois ELSE antes

\* POST /finalizar_compra, with at most `limite` orders in the model;
\* commit_ok tells whether db.session.commit() returns or raises
FinalizarCompraCom(limite, form, modo, mail, commit_ok) ==
    LET in == [total |-> 0, enviado |-> FALSE, falta |-> FaltaCampo(form), pulados |-> 0]
    IN
    /\ (Logado(session) /\ FormCompleto(form) /\ commit_ok) => Len(pedidos) < limite
    /\ UNCHANGED pendentes
    /\ UNCHANGED <<usuarios, produtos, avaliacoes>>
    /\ IF ~Logado(session)
       THEN /\ UNCHANGED <<session, pedidos, enderecos, itens>>
            /\ last' = Req("finalizar", "login", in)
       ELSE IF ~FormCompleto(form)
       THEN /\ UNCHANGED <<session, pedidos, enderecos, itens>>
            /\ last' = Req("finalizar", "finalizar_compra", in)
       ELSE IF "usuario" \notin DOMAIN session
       THEN \* session['usuario'] raises KeyError
            /\ UNCHANGED <<session, pedidos, enderecos, itens>>
            /\ last' = Req("finalizar", "erro500", in)
       ELSE IF UsuarioId(usuarios, session["usuario"]) = 0
       THEN \* usuario is None: usuario.id raises before anything is added
            /\ UNCHANGED <<session, pedidos, enderecos, itens>>
            /\ last' = Req("finalizar", "erro500", in)
       ELSE LET usuario_id == UsuarioId(usuarios, session["usuario"])
                pedido_id  == NovoPedidoId(pedidos)
                carrinho   == Cart(session)
                total      == SomaPedido(carrinho, produtos, DOMAIN carrinho)
                e          == Notifica(modo, mail)
                tabelas    == AposCommit(commit_ok, <<pedidos, enderecos, itens>>,
                                         <<Append(pedidos, [usuario_id |-> usuario_id]),
                                           Append(enderecos, NovoEndereco(form, pedido_id)),
                                           NovosItens(carrinho, produtos, pedido_id) @@ itens>>)
            IN  /\ pedidos'   = tabelas[1]
                /\ enderecos' = tabelas[2]
                /\ itens'     = tabelas[3]
                /\ IF commit_ok
                   THEN /\ session' = SessaoAposCompra(session)
                        /\ last' = Req("finalizar",
                                       IF e.exc = "ok" \/ ExceptException(e.exc)
                                       THEN "obrigado" ELSE "erro500",
                                       [in EXCEPT !.total = total, !.enviado = e.enviado,
                                                  !.pulados = Pulados(carrinho, produtos)])
                   ELSE \* the exception leaves the handler before line 410
                        /\ UNCHANGED session
                        /\ last' = Req("finalizar", "erro500", in)

FinalizarCompraAte(limite, form, modo, mail) ==
    FinalizarCompraCom(limite, form, modo, mail, TRUE)

FinalizarCompra(form, modo, mail) == FinalizarCompraAte(MaxPedidos, form, modo, mail)

\* GET /meus-pedidos: the ids of the orders on the page
MeusPedidos ==
    /\ UNCHANGED pendentes
    /\ UNCHANGED <<session, db>>
    /\ IF ~Logado(session)
       THEN last' = Req("meus_pedidos", "login", <<>>)
       ELSE LET usuario_id == UsuarioId(usuarios, session["usuario"])
            IN  last' = Req("meus_pedidos", "meus_pedidos.html",
                            PedidosDe(pedidos, usuario_id))

-----------------------------------------------------------------------------
(* Checkout, step by step: the server handles requests in threads, and the
   session is a cookie, so each request works on the copy of the session
   that the browser sent with it *)

\* variant: the cart is read from a session shared between the requests
CarrinhoLido_Mut(ps, s, i) == Cart(s)

\* session.get("carrinho", {}) in request i: the cart of the cookie it came with
CarrinhoLido(ps, s, i) == Cart(ps[i].cookie)

\* the requests that are being handled
EmCurso(ps) == {i \in Simultaneas : ps[i].pc # "parado"}

\* POST /finalizar_compra arrives: the checks before the database is touched
FinalizarChega(i, form) ==
    LET in == [total |-> 0, enviado |-> FALSE, falta |-> FaltaCampo(form), pulados |-> 0]
    IN
    /\ pendentes[i].pc = "parado"
    /\ (Logado(session) /\ FormCompleto(form))
          => Len(pedidos) + Cardinality(EmCurso(pendentes)) < MaxHistorico
    /\ UNCHANGED <<session, db>>
    /\ IF ~Logado(session)
       THEN /\ UNCHANGED pendentes
            /\ last' = Req("finalizar", "login", in)
       ELSE IF ~FormCompleto(form)
       THEN /\ UNCHANGED pendentes
            /\ last' = Req("finalizar", "finalizar_compra", in)
       ELSE /\ pendentes' = [pendentes EXCEPT ![i] =
                                [pc |-> "lido", cookie |-> session, form |-> form]]
            /\ UNCHANGED last

\* from db.session.add(pedido) to db.session.commit(): one write transaction
FinalizarGrava(i) ==
    /\ pendentes[i].pc = "lido"
    /\ LET cookie    == pendentes[i].cookie
           pedido_id == NovoPedidoId(pedidos)
           carrinho  == CarrinhoLido(pendentes, session, i)
       IN  /\ pedidos'   = Append(pedidos, [usuario_id |-> UsuarioId(usuarios, cookie["usuario"])])
           /\ enderecos' = Append(enderecos, NovoEndereco(pendentes[i].form, pedido_id))
           /\ itens'     = NovosItens(carrinho, produtos, pedido_id) @@ itens
           /\ pendentes' = [pendentes EXCEPT ![i] =
                               [pc |-> "gravado", cookie |-> cookie, pedido |-> pedido_id]]
    /\ UNCHANGED <<session, usuarios, produtos, avaliacoes, last>>

\* session['carrinho'] = {}, the notification and the response, whose cookie
\* replaces the one of the browser
FinalizarResponde(i, modo, mail) ==
    /\ pendentes[i].pc = "gravado"
    /\ LET e == Notifica(modo, mail)
       IN  /\ session' = SessaoAposCompra(pendentes[i].cookie)
           /\ last' = Req("finalizar",
                          IF e.exc = "ok" \/ ExceptException(e.exc) THEN "obrigado" ELSE "erro500",
                          [pedido |-> pendentes[i].pedido, enviado |-> e.enviado])
    /\ pendentes' = [pendentes EXCEPT ![i] = Parado]
    /\ UNCHANGED db

-----------------------------------------------------------------------------
(* Reviews *)

\* int(s) for a sequence of characters: -1 stands for ValueError
Digito(c) == CASE c = "0" -> 0 [] c = "1" -> 1 [] c = "5" -> 5 [] c = "9" -> 9 [] OTHER -> -1
RECURSIVE IntDe(_)
IntDe(s) ==
    IF s = <<>> THEN -1
    ELSE IF Digito(s[Len(s)]) < 0 THEN -1
    ELSE IF Len(s) = 1 THEN Digito(s[1])
    ELSE LET alto == IntDe(SubSeq(s, 1, Len(s) - 1))
         IN  IF alto < 0 THEN -1 ELSE 10 * alto + Digito(s[Len(s)])

NotasForm       == {None, Texto(<<"x">>), Texto(<<"5">>), Texto(<<"9", "9">>)}
ComentariosForm == {None, Texto(<<"g", "r", "e", "a", "t">>)}

\* POST /avaliar/<produto_id>, with at most `limite` reviews in the model
AvaliarAte(limite, produto_id, nota, comentario) ==
    LET valido == ~nota.nulo /\ IntDe(nota.txt) >= 0 /\ ~comentario.nulo
    IN
    /\ (Logado(session) /\ valido) => Len(avaliacoes) < limite
    /\ UNCHANGED pendentes
    /\ UNCHANGED <<session, usuarios, produtos, pedidos, enderecos, itens>>
    /\ IF ~Logado(session)
       THEN /\ UNCHANGED avaliacoes
            /\ last' = Req("avaliar", "login", <<>>)
       ELSE IF nota.nulo
       THEN \* request.form['nota'] raises BadRequestKeyError
            /\ UNCHANGED avaliacoes
            /\ last' = Req("avaliar", "erro400", <<>>)
       ELSE IF IntDe(nota.txt) < 0
       THEN \* int() raises ValueError
            /\ UNCHANGED avaliacoes
            /\ last' = Req("avaliar", "erro500", <<>>)
       ELSE IF comentario.nulo
       THEN /\ UNCHANGED avaliacoes
            /\ last' = Req("avaliar", "erro400", <<>>)
       ELSE /\ avaliacoes' = Append(avaliacoes,
                                    [usuario_id |-> UsuarioId(usuarios, session["usuario"]),
                                     produto_id |-> produto_id,
                                     nota       |-> IntDe(nota.txt),
                                     comentario |-> comentario.txt])
            /\ last' = Req("avaliar", "index", <<>>)

Avaliar(produto_id, nota, comentario) ==
    AvaliarAte(MaxAvaliacoes, produto_id, nota, comentario)

-----------------------------------------------------------------------------
(* Reports *)

\* the ItemPedido rows whose item.produto is None
ItensOrfaos(it, p) == {r \in DOMAIN it : ~ProdutoExiste(p, r[2])}

\* the number of rows among the keys R of the item table
RECURSIVE ContaItens(_, _)
ContaItens(it, R) ==
    IF R = {} THEN 0
    ELSE LET r == CHOOSE x \in R : TRUE IN it[r] + ContaItens(it, R \ {r})

\* df["produto"].value_counts() over the rows with `if item.produto:`:
\* product name -> number of rows
Vendas(it, p) ==
    LET com == DOMAIN it \ ItensOrfaos(it, p)
    IN  [nm \in {p[r[2]].nome : r \in com} |->
            ContaItens(it, {r \in com : p[r[2]].nome = nm})]

\* total_vendas += item.produto.preco, over the items of every order
RECURSIVE TotalVendas(_, _, _)
TotalVendas(it, p, R) ==
    IF R = {} THEN 0
    ELSE LET r == CHOOSE x \in R : TRUE
         IN  p[r[2]].preco * it[r] + TotalVendas(it, p, R \ {r})

\* variant: one order too many
ContaPedidos_Mut(ps) == Len(ps) + 1

\* Pedido.query.count()
ContaPedidos(ps) == Len(ps)

\* GET /admin/relatorios
RelatoriosAdmin ==
    /\ UNCHANGED pendentes
    /\ UNCHANGED <<session, db>>
    /\ last' = Req("relatorios", "relatorios.html",
                   [vendas  |-> Vendas(itens, produtos),
                    grafico |-> Vendas(itens, produtos) # EmptyDict])

\* GET /enviar-relatorio
EnviarRelatorio(mail) ==
    /\ UNCHANGED pendentes
    /\ UNCHANGED <<session, db>>
    /\ IF ItensOrfaos(itens, produtos) # {}
       THEN \* item.produto is None: item.produto.preco raises AttributeError
            last' = Req("enviar_relatorio", "erro500", <<>>)
       ELSE last' = Req("enviar_relatorio",
                        IF mail = "ok" THEN "enviar_relatorio.html" ELSE "erro_envio",
                        [total_pedidos |-> ContaPedidos(pedidos),
                         total_vendas  |-> TotalVendas(itens, produtos, DOMAIN itens),
                         vendas        |-> Vendas(itens, produtos)])

-----------------------------------------------------------------------------
Next ==
    \/ \E nome \in Nomes, senha \in Senhas : Login(nome, senha)
    \/ Logout
    \/ \E id \in Ids : AdicionarAoCarrinho(id)
    \/ \E id \in Ids, acao \in Acoes : AlterarQuantidade(id, acao)
    \/ \E id \in Ids : RemoverDoCarrinho(id)
    \/ LimparCarrinho
    \/ VerCarrinho
    \/ \E cep \in Ceps : CalcularFrete(cep)
    \/ \E preco \in Precos, ok \in BOOLEAN : Adicionar("whey", preco, ok)
    \/ \E id \in Ids : Excluir(id)
    \/ \E form \in Formularios, modo \in Modos, mail \in Correio :
          FinalizarCompra(form, modo, mail)

Spec == Init /\ [][Next]_vars

\* the requests around the order history and the reviews
NextPedidos ==
    \/ \E nome \in Nomes : Login(nome, Senha)
    \/ Logout
    \/ \E id \in Ids : AdicionarAoCarrinho(id)
    \/ \E id \in Ids : AlterarQuantidade(id, "menos")
    \/ \E id \in Ids : RemoverDoCarrinho(id)
    \/ LimparCarrinho
    \/ \E preco \in Precos : Adicionar("whey", preco, TRUE)
    \/ \E id \in Ids : Excluir(id)
    \/ \E form \in {Preenchido, [Preenchido EXCEPT !["email"] = None]} :
          FinalizarCompraAte(MaxHistorico, form, "import", "ok")
    \/ MeusPedidos
    \/ AvaliarAte(MaxAvaliacoesHistorico, 1, Texto(<<"5">>), Texto(<<"g", "r", "e", "a", "t">>))

SpecPedidos == Init /\ [][NextPedidos]_vars

\* the requests around the reviews
NextAvaliacoes ==
    \/ \E nome \in Nomes : Login(nome, Senha)
    \/ Logout
    \/ \E preco \in Precos : Adicionar("whey", preco, TRUE)
    \/ \E id \in Ids : Excluir(id)
    \/ \E id \in Ids, nota \in NotasForm, comentario \in ComentariosForm :
          Avaliar(id, nota, comentario)

SpecAvaliacoes == Init /\ [][NextAvaliacoes]_vars

\* the requests around the reports
NextRelatorios ==
    \/ \E nome \in Nomes : Login(nome, Senha)
    \/ \E id \in Ids : AdicionarAoCarrinho(id)
    \/ LimparCarrinho
    \/ \E nome \in NomesProduto, preco \in Precos : Adicionar(nome, preco, TRUE)
    \/ \E id \in Ids : Excluir(id)
    \/ FinalizarCompra(Preenchido, "import", "ok")
    \/ RelatoriosAdmin
    \/ \E mail \in Correio : EnviarRelatorio(mail)

SpecRelatorios == Init /\ [][NextRelatorios]_vars

\* checkouts handled at the same time
NextSimultaneas ==
    \/ \E nome \in Nomes : Login(nome, Senha)
    \/ \E id \in Ids : AdicionarAoCarrinho(id)
    \/ LimparCarrinho
    \/ \E preco \in Precos : Adicionar("whey", preco, TRUE)
    \/ \E i \in Simultaneas, form \in {Preenchido, [Preenchido EXCEPT !["email"] = None]} :
          FinalizarChega(i, form)
    \/ \E i \in Simultaneas : FinalizarGrava(i)
    \/ \E i \in Simultaneas, mail \in Correio : FinalizarResponde(i, "import", mail)

SpecSimultaneas == Init /\ [][NextSimultaneas]_vars

\* one browser used by two users in turn: only ana puts products in the cart
NextTroca ==
    \/ \E nome \in Nomes : Login(nome, Senha)
    \/ Logout
    \/ \E id \in Ids :
          /\ "usuario" \in DOMAIN session
          /\ session["usuario"] = "ana"
          /\ AdicionarAoCarrinho(id)
    \/ \E preco \in Precos : Adicionar("whey", preco, TRUE)
    \/ \E form \in {Preenchido, [Preenchido EXCEPT !["email"] = None]} :
          FinalizarCompra(form, "import", "ok")

SpecTroca == Init /\ [][NextTroca]_vars

\* checkouts whose commit can fail
NextFalha ==
    \/ \E nome \in Nomes : Login(nome, Senha)
    \/ \E id \in Ids : AdicionarAoCarrinho(id)
    \/ \E preco \in Precos : Adicionar("whey", preco, TRUE)
    \/ \E id \in Ids : Excluir(id)
    \/ \E form \in {Preenchido, [Preenchido EXCEPT !["email"] = None]}, commit_ok \in BOOLEAN :
          FinalizarCompraCom(MaxHistorico, form, "import", "ok", commit_ok)

SpecFalha == Init /\ [][NextFalha]_vars

-----------------------------------------------------------------------------
(* Properties *)

Carrinho == Cart(session)

\* a successful checkout has just been handled
Comprou == last.op = "finalizar" /\ last.resp = "obrigado"

\* the subtotal of a cart: price * quantity over the products in the catalog
RECURSIVE SubtotalDe(_, _, _)
SubtotalDe(c, p, P) ==
    IF P = {} THEN 0
    ELSE LET n == CHOOSE x \in P : TRUE
         IN  p[n].preco * DictGet(c, StrKey(n), 0) + SubtotalDe(c, p, P \ {n})
Subtotal(c, p) == SubtotalDe(c, p, DOMAIN p)

\* the ItemPedido rows of order n that reference product id
Linhas(it, n, id) == DictGet(it, <<n, id>>, 0)

\* C1: every entry of the cart has a quantity of at least 1
C1_QuantidadePositiva ==
    \A k \in DOMAIN Carrinho : Carrinho[k] >= 1

\* C1 witness: a -1 has just taken an entry to zero and deleted it
C1_Witness ==
    /\ last.op = "alterar" /\ last.out = "del"
    /\ Carrinho # EmptyDict

\* C2: a successful checkout adds, for each cart entry (p, q) whose product
\* exists, exactly q ItemPedido rows for p under the new order, adds no other
\* row, and its total is the sum of price(p) * q over those entries
C2_UmaLinhaPorUnidade ==
    [][ (last'.op = "finalizar" /\ last'.resp = "obrigado") =>
          LET c == Carrinho
              n == Len(pedidos')
          IN  /\ n = Len(pedidos) + 1
              /\ \A id \in Ids :
                    Linhas(itens', n, id) =
                       IF StrKey(id) \in DOMAIN c /\ id \in DOMAIN produtos
                       THEN c[StrKey(id)] ELSE 0
              /\ \A r \in DOMAIN itens' : r \in DOMAIN itens \/ (r[1] = n /\ r[2] \in Ids)
              /\ \A r \in DOMAIN itens : r \in DOMAIN itens' /\ itens'[r] = itens[r]
              /\ last'.out.total = Subtotal(c, produtos)
      ]_vars

\* C2 witness: an order made of a cart entry of quantity 2
C2_Witness ==
    /\ Comprou
    /\ \E r \in DOMAIN itens : itens[r] = 2
    /\ last.out.total = 2 * 12500

\* C3: a checkout whose form lacks a required field (absent or empty) adds
\* no Pedido, no Endereco and no ItemPedido row
C3_CamposObrigatorios ==
    [][ (last'.op = "finalizar" /\ last'.out.falta)
          => UNCHANGED <<pedidos, enderecos, itens>>
      ]_vars

\* C3 witness: a logged-in user with a cart was sent back to the form
C3_Witness ==
    /\ last.op = "finalizar" /\ last.out.falta
    /\ "usuario" \in DOMAIN session
    /\ Carrinho # EmptyDict

\* C4: after a successful checkout the cart of the session is the empty mapping
C4_CarrinhoVazioAposCompra ==
    Comprou => ("carrinho" \in DOMAIN session /\ session["carrinho"] = EmptyDict)

\* C4 witness: a successful checkout of a cart that held items
C4_Witness ==
    /\ Comprou
    /\ itens # EmptyDict

C6_RegraDoFrete ==
    (last.op = "frete" /\ last.resp = "calculado") =>
        /\ "frete" \in DOMAIN session
        /\ (session["frete"] = 0) <=> (Subtotal(Carrinho, produtos) >= 25000)
        /\ (Subtotal(Carrinho, produtos) < 25000) => session["frete"] = 1990

\* C6 witness: free shipping quoted for a subtotal of exactly 250.00
C6_Witness ==
    /\ last.op = "frete" /\ last.resp = "calculado"
    /\ session["frete"] = 0
    /\ Subtotal(Carrinho, produtos) = 25000

\* C7: remover_do_carrinho(p) leaves no entry for p in the cart and leaves
\* every other entry as it was
C7_RemoverApagaEntrada ==
    [][ (last'.op = "remover") =>
          \A id \in Ids :
             RemoverDoCarrinho(id) =>
                /\ \A k \in DOMAIN Cart(session') : ToInt(k) # id
                /\ \A k \in DOMAIN Carrinho :
                      ToInt(k) # id =>
                         (k \in DOMAIN Cart(session') /\ Cart(session')[k] = Carrinho[k])
      ]_vars

\* C8: a checkout without a logged-in user is sent to the login page, adds
\* no Pedido, Endereco or ItemPedido row and leaves the session cart alone
C8_CompraSemLogin ==
    [][ (last'.op = "finalizar" /\ "usuario" \notin DOMAIN session) =>
          /\ last'.resp = "login"
          /\ UNCHANGED <<pedidos, enderecos, itens>>
          /\ session' = session
      ]_vars

\* C8 witness: a checkout refused for lack of login while the cart held items
C8_Witness ==
    /\ last.op = "finalizar" /\ last.resp = "login"
    /\ "usuario" \notin DOMAIN session
    /\ Carrinho # EmptyDict

\* a string without its leading and trailing blanks
RECURSIVE LStrip(_)
LStrip(s) == IF s # <<>> /\ Head(s) = " " THEN LStrip(Tail(s)) ELSE s
RECURSIVE RStrip(_)
RStrip(s) == IF s # <<>> /\ s[Len(s)] = " " THEN RStrip(SubSeq(s, 1, Len(s) - 1)) ELSE s
Strip(s)  == RStrip(LStrip(s))

\* C9: calcular_frete refuses a postal code (absent, or a string) that has
\* fewer than 8 characters once stripped, and leaves the stored fee and
\* postal code as they were
C9_CepCurtoRecusado ==
    [][ (last'.op = "frete") =>
          \A cep \in Ceps :
             ( /\ CalcularFrete(cep)
               /\ (cep.nulo \/ Len(Strip(cep.txt)) < 8) )
             => /\ last'.resp = "cep_invalido"
                /\ session' = session
      ]_vars

\* the quote kept in the session: the keys frete and cep_usuario, if set
Cotacao(s) == [k \in DOMAIN s \cap {"frete", "cep_usuario"} |-> s[k]]

\* C10: the stored fee and postal code change only in a calcular_frete that
\* computed a quote; every other request leaves them as they were
C10_CotacaoNaoRecalculada ==
    [][ (Cotacao(session') # Cotacao(session)) =>
          (last'.op = "frete" /\ last'.resp = "calculado")
      ]_vars

\* C10 witness: free shipping is stored while the cart subtotal is below
\* 250.00, after a cart request
C10_Witness ==
    /\ "frete" \in DOMAIN session /\ session["frete"] = 0
    /\ Subtotal(Carrinho, produtos) < 25000
    /\ last.op \in {"add", "alterar", "limpar", "finalizar"}

\* C11: the total due of the cart page is the subtotal plus the stored fee
\* when a quote is stored and the subtotal is below 250.00, and the subtotal
\* alone when no quote is stored or the subtotal is at least 250.00
C11_TotalGeral ==
    (last.op = "carrinho" /\ last.resp = "carrinho.html") =>
        last.out.total_geral =
            IF "frete" \in DOMAIN session /\ Subtotal(Carrinho, produtos) < 25000
            THEN Subtotal(Carrinho, produtos) + session["frete"]
            ELSE Subtotal(Carrinho, produtos)

\* C11 witness: the page shown with a stored fee of 19.90 and a subtotal that
\* has since reached 250.00
C11_Witness ==
    /\ last.op = "carrinho" /\ last.resp = "carrinho.html"
    /\ "frete" \in DOMAIN session /\ session["frete"] = 1990
    /\ Subtotal(Carrinho, produtos) >= 25000
    /\ last.out.total_geral = Subtotal(Carrinho, produtos)

\* the entries of cart c other than the one of product id are those of d
OutrasIguais(c, d, id) ==
    /\ DOMAIN c \ {StrKey(id)} = DOMAIN d \ {StrKey(id)}
    /\ \A k \in DOMAIN c \ {StrKey(id)} : c[k] = d[k]

\* C12: an add by a logged-in session raises the quantity of that product's
\* entry by exactly 1 (an absent entry counts as 0) and leaves every other
\* entry as it was
C12_AddSomaUm ==
    [][ (last'.op = "add" /\ "usuario" \in DOMAIN session) =>
          /\ \E id \in Ids : AdicionarAoCarrinho(id)
          /\ \A id \in Ids :
                AdicionarAoCarrinho(id) =>
                   /\ StrKey(id) \in DOMAIN Cart(session')
                   /\ Cart(session')[StrKey(id)] = DictGet(Carrinho, StrKey(id), 0) + 1
                   /\ OutrasIguais(Carrinho, Cart(session'), id)
      ]_vars

\* C12 witness: an add that took an existing entry from 1 to 2
C12_Witness ==
    /\ last.op = "add" /\ last.resp = "index"
    /\ \E k \in DOMAIN Carrinho : Carrinho[k] = 2

\* C13: on a product that is in the cart, "mais" adds 1 to its quantity,
\* "menos" takes 1 from it and deletes the entry when the result is <= 0,
\* any other action leaves the cart as it was; the other entries never change
C13_AlterarQuantidade ==
    [][ (last'.op = "alterar") =>
          /\ \E id \in Ids, acao \in Acoes : AlterarQuantidade(id, acao)
          /\ \A id \in Ids, acao \in Acoes :
                (AlterarQuantidade(id, acao) /\ StrKey(id) \in DOMAIN Carrinho) =>
                   LET k == StrKey(id)
                       q == Carrinho[k]
                       d == Cart(session')
                   IN  /\ acao = "mais" => (k \in DOMAIN d /\ d[k] = q + 1)
                       /\ acao = "menos" =>
                             IF q - 1 <= 0 THEN k \notin DOMAIN d
                             ELSE (k \in DOMAIN d /\ d[k] = q - 1)
                       /\ acao \notin {"mais", "menos"} => d = Carrinho
                       /\ OutrasIguais(Carrinho, d, id)
      ]_vars

\* C13 witness: a -1 that took an entry from 2 to 1
C13_Witness ==
    /\ last.op = "alterar" /\ last.out = "menos"
    /\ \E k \in DOMAIN Carrinho : Carrinho[k] = 1

\* the cart entries whose product is in the catalog
Existentes(c, p) == {k \in DOMAIN c : ToInt(k) \in DOMAIN p}

\* C14: a cart entry whose product is not in the catalog is skipped without
\* an error: the cart page lists exactly the other entries and totals them,
\* calcular_frete quotes on their subtotal, and a checkout answers normally
\* and adds ItemPedido rows only for products of the catalog
C14_ProdutoExcluidoIgnorado ==
    /\ (last.op = "carrinho" /\ "usuario" \in DOMAIN session) =>
          /\ last.resp = "carrinho.html"
          /\ DOMAIN last.out.itens = Existentes(Carrinho, produtos)
          /\ \A k \in DOMAIN last.out.itens :
                last.out.itens[k].quantidade = Carrinho[k]
          /\ last.out.total = Subtotal(Carrinho, produtos)
    /\ (last.op = "frete") =>
          /\ last.resp \in {"calculado", "cep_invalido"}
          /\ last.resp = "calculado" =>
                session["frete"] = IF Subtotal(Carrinho, produtos) >= 25000 THEN 0 ELSE 1990
    /\ (last.op = "finalizar" /\ "usuario" \in DOMAIN session /\ ~last.out.falta) =>
          /\ last.resp = "obrigado"
          /\ \A r \in DOMAIN itens : r[1] = Len(pedidos) => r[2] \in DOMAIN produtos

\* C14 witness: a checkout that skipped an entry and still ordered another
C14_Witness ==
    /\ Comprou
    /\ last.out.pulados >= 1
    /\ \E r \in DOMAIN itens : r[1] = Len(pedidos)


\* the ItemPedido rows of order n
ItensDe(it, n) == [r \in {q \in DOMAIN it : q[1] = n} |-> it[r]]

\* the Endereco rows of order n
EnderecosDe(es, n) == {i \in 1..Len(es) : es[i].pedido_id = n}

\* C15: a step leaves every committed order as it is (its owner, its address
\* and its item rows), whatever the request: cart changes, checkouts of any
\* user, reviews, product creation and deletion, login and logout; and the
\* orders grow only by one, in a step that is a successful checkout
C15_PedidoImutavel ==
    [][ /\ Len(pedidos') >= Len(pedidos)
        /\ \A n \in 1..Len(pedidos) :
              /\ pedidos'[n] = pedidos[n]
              /\ EnderecosDe(enderecos', n) = EnderecosDe(enderecos, n)
              /\ \A i \in EnderecosDe(enderecos, n) : enderecos'[i] = enderecos[i]
              /\ ItensDe(itens', n) = ItensDe(itens, n)
        /\ Len(pedidos') # Len(pedidos)
              => /\ Len(pedidos') = Len(pedidos) + 1
                 /\ last'.op = "finalizar" /\ last'.resp = "obrigado" ]_vars

\* two orders of two users are committed, a product that the first order
\* references has just been deleted, and the order still has its rows
C15_Witness ==
    /\ Len(pedidos) = 2
    /\ pedidos[1].usuario_id # pedidos[2].usuario_id
    /\ last.op = "excluir" /\ last.resp = "index"
    /\ \E r \in DOMAIN ItensDe(itens, 1) : ~ProdutoExiste(produtos, r[2])
    /\ Len(avaliacoes) = 1

\* the name of the account that owns order n
DonoDe(n) == usuarios[pedidos[n].usuario_id].nome

\* C16: a successful checkout creates an order owned by the user of the
\* session, and the order history shown to a session user holds exactly the
\* orders owned by that user: all of them, and none of another user
C16_MeusPedidos ==
    [][ /\ (last'.op = "finalizar" /\ last'.resp = "obrigado")
              => /\ Len(pedidos') = Len(pedidos) + 1
                 /\ usuarios'[pedidos'[Len(pedidos')].usuario_id].nome = session["usuario"]
        /\ (last'.op = "meus_pedidos" /\ last'.resp = "meus_pedidos.html")
              => \A n \in 1..Len(pedidos) :
                    n \in last'.out <=> DonoDe(n) = session["usuario"] ]_vars

\* two users have one order each and the history page shows one of the two
C16_Witness ==
    /\ last.op = "meus_pedidos" /\ last.resp = "meus_pedidos.html"
    /\ Len(pedidos) = 2
    /\ DonoDe(1) # DonoDe(2)
    /\ \E n \in 1..2 : last.out = {n} /\ DonoDe(n) = session["usuario"]

\* the review form is complete and its rating is a number
AvaliacaoValida(nota, comentario) ==
    ~nota.nulo /\ IntDe(nota.txt) >= 0 /\ ~comentario.nulo

\* C17: a review submitted with a session user appends exactly one row with
\* that user, the product of the URL, the rating and the comment, whatever
\* the reviews already stored; a review submitted without a session user
\* adds nothing; and no step changes or removes a stored review
C17_AvaliacaoSoAcrescenta ==
    [][ /\ Len(avaliacoes') >= Len(avaliacoes)
        /\ \A i \in 1..Len(avaliacoes) : avaliacoes'[i] = avaliacoes[i]
        /\ (last'.op = "avaliar" /\ ~Logado(session)) => avaliacoes' = avaliacoes
        /\ \A id \in Ids, nota \in NotasForm, comentario \in ComentariosForm :
              (/\ last'.op = "avaliar"
               /\ Logado(session)
               /\ AvaliacaoValida(nota, comentario)
               /\ Avaliar(id, nota, comentario))
              => avaliacoes' = Append(avaliacoes,
                                     [usuario_id |-> UsuarioId(usuarios, session["usuario"]),
                                      produto_id |-> id,
                                      nota       |-> IntDe(nota.txt),
                                      comentario |-> comentario.txt]) ]_vars

\* a report request has just been handled
Relatorio == last.op \in {"relatorios", "enviar_relatorio"}

\* C18: with no order in the store a report does not fail, its table of
\* sales per product is empty, and the mailed report counts zero orders and
\* a revenue of zero
C18_RelatorioSemPedidos ==
    (Relatorio /\ Len(pedidos) = 0)
        => /\ last.resp # "erro500"
           /\ last.out.vendas = EmptyDict
           /\ last.op = "relatorios" => ~last.out.grafico
           /\ last.op = "enviar_relatorio"
                 => last.out.total_pedidos = 0 /\ last.out.total_vendas = 0

\* the mailed report was built with products in the catalog and no order
C18_Witness ==
    /\ last.op = "enviar_relatorio" /\ last.resp = "enviar_relatorio.html"
    /\ Len(pedidos) = 0
    /\ DOMAIN produtos # {}
    /\ last.out.total_pedidos = 0

\* the number of ItemPedido rows that reference a product named nm
LinhasDoProduto(it, p, nm) ==
    ContaItens(it, {r \in DOMAIN it : r[2] \in DOMAIN p /\ p[r[2]].nome = nm})

\* the price of the product each row references, summed over all rows (a row
\* whose product is gone has no price to give)
RECURSIVE Faturamento(_, _, _)
Faturamento(it, p, R) ==
    IF R = {} THEN 0
    ELSE LET r == CHOOSE x \in R : TRUE
         IN  (IF r[2] \in DOMAIN p THEN p[r[2]].preco * it[r] ELSE 0)
             + Faturamento(it, p, R \ {r})

\* C20: in every state a report completes without an error, also after a
\* product that item rows reference was deleted; the count it shows for a
\* product (products are told apart by name) is the number of item rows
\* referencing it, and the revenue is the sum over the item rows of the
\* referenced product's price
C20_RelatorioSemErro ==
    Relatorio
        => /\ last.resp # "erro500"
           /\ \A nm \in NomesProduto :
                 DictGet(last.out.vendas, nm, 0) = LinhasDoProduto(itens, produtos, nm)
           /\ last.op = "enviar_relatorio"
                 => last.out.total_vendas = Faturamento(itens, produtos, DOMAIN itens)

\* C19: nothing stands between a checkout request and its commit: the step
\* that commits request i adds an order with the rows of the cart that the
\* request came with, whatever another request of the same session has
\* committed or cleared since; so two requests that came with the same cart
\* both turn it into an order
C19_DoisPedidosDeUmCarrinho ==
    [][ \A i \in Simultaneas :
          (pendentes[i].pc = "lido" /\ pendentes'[i].pc = "gravado")
              => /\ Len(pedidos') = Len(pedidos) + 1
                 /\ ItensDe(itens', Len(pedidos'))
                      = NovosItens(Cart(pendentes[i].cookie), produtos, Len(pedidos'))
                 /\ ItensDe(itens', Len(pedidos')) # EmptyDict
                      <=> Existentes(Cart(pendentes[i].cookie), produtos) # {} ]_vars

\* two requests came with the same cookie, whose cart is not empty and is
\* still the cart of the browser, and both have committed an order with the
\* same rows
C19_Witness ==
    /\ \A i \in Simultaneas : pendentes[i].pc = "gravado"
    /\ pendentes[1].cookie = pendentes[2].cookie
    /\ session = pendentes[1].cookie
    /\ Len(pedidos) = 2
    /\ ItensDe(itens, 1) # EmptyDict
    /\ \A id \in Ids : Linhas(itens, 1, id) = Linhas(itens, 2, id)

\* C23: a step gives the cart an entry it did not have only when it is an
\* add of a session with a user: +1, -1 and remove never create an entry, an
\* add without a user leaves the cart as it was, and so an empty cart of a
\* session without a user stays empty until a user logs in
C23_EntradaSoPorAdd ==
    [][ /\ last'.op \in {"alterar", "remover"}
              => DOMAIN Cart(session') \subseteq DOMAIN Carrinho
        /\ (last'.op = "add" /\ "usuario" \notin DOMAIN session)
              => /\ Cart(session') = Carrinho
                 /\ last'.resp = "login"
        /\ ~(DOMAIN Cart(session') \subseteq DOMAIN Carrinho)
              => last'.op = "add" /\ "usuario" \in DOMAIN session
        /\ ("usuario" \notin DOMAIN session /\ "usuario" \notin DOMAIN session'
              /\ Carrinho = EmptyDict)
              => Cart(session') = EmptyDict ]_vars

\* +1 was asked for a product that is not in the cart, in a session without
\* a user and with a product in the catalog: the cart is still empty
C23_Witness ==
    /\ last.op = "alterar" /\ last.out = "ausente"
    /\ "usuario" \notin DOMAIN session
    /\ "carrinho" \in DOMAIN session
    /\ Carrinho = EmptyDict
    /\ DOMAIN produtos # {}

\* C24: login and logout leave the cart of the session as it is, so the
\* user who logs in finds the cart that the user before left; and a
\* successful checkout creates an order owned by the user of the session at
\* that moment, with the rows of the cart whoever filled it
C24_CarrinhoDaSessao ==
    [][ /\ last'.op \in {"login", "logout"}
              => /\ Cart(session') = Carrinho
                 /\ "carrinho" \in DOMAIN session' <=> "carrinho" \in DOMAIN session
        /\ (last'.op = "finalizar" /\ last'.resp = "obrigado")
              => LET n == Len(pedidos')
                 IN  /\ n = Len(pedidos) + 1
                     /\ usuarios[pedidos'[n].usuario_id].nome = session["usuario"]
                     /\ \A id \in Ids :
                           Linhas(itens', n, id) =
                              IF StrKey(id) \in DOMAIN Carrinho /\ id \in DOMAIN produtos
                              THEN Carrinho[StrKey(id)] ELSE 0 ]_vars

\* bia has checked out and owns an order with rows, in a browser where only
\* ana has put products in the cart
C24_Witness ==
    /\ Comprou
    /\ Len(pedidos) = 1
    /\ DonoDe(1) = "bia"
    /\ ItensDe(itens, 1) # EmptyDict

\* C25: a checkout of a session with a user and a complete form goes through
\* also when the cart is empty or names only products that are gone: it
\* adds one order with one address and no item row, and its total is 0
C25_CompraDeCarrinhoVazio ==
    [][ (/\ last'.op = "finalizar"
         /\ "usuario" \in DOMAIN session
         /\ ~last'.out.falta
         /\ Existentes(Carrinho, produtos) = {})
          => LET n == Len(pedidos')
             IN  /\ last'.resp = "obrigado"
                 /\ n = Len(pedidos) + 1
                 /\ Len(enderecos') = Len(enderecos) + 1
                 /\ EnderecosDe(enderecos', n) = {Len(enderecos')}
                 /\ ItensDe(itens', n) = EmptyDict
                 /\ itens' = itens
                 /\ last'.out.total = 0 ]_vars

\* an order without rows, made from a cart whose products were deleted
C25_Witness ==
    /\ Comprou
    /\ last.out.pulados >= 1
    /\ last.out.total = 0
    /\ Len(pedidos) = 1 /\ Len(enderecos) = 1
    /\ ItensDe(itens, 1) = EmptyDict

\* C21: when the commit of a checkout fails, no Pedido, Endereco or
\* ItemPedido row of that checkout is stored, the request ends in an error,
\* and the cart of the session is not cleared
C21_FalhaDoCommit ==
    [][ \A form \in Formularios :
          (/\ last'.op = "finalizar"
           /\ "usuario" \in DOMAIN session
           /\ ~FaltaCampo(form)
           /\ FinalizarCompraCom(MaxHistorico, form, "import", "ok", FALSE))
            => /\ pedidos' = pedidos
               /\ enderecos' = enderecos
               /\ itens' = itens
               /\ last'.resp = "erro500"
               /\ session' = session ]_vars

\* a checkout has just failed while the cart held a product of the catalog:
\* the cart is still there and no order exists
C21_Witness ==
    /\ last.op = "finalizar" /\ last.resp = "erro500"
    /\ Existentes(Carrinho, produtos) # {}
    /\ Len(pedidos) = 0 /\ Len(enderecos) = 0 /\ itens = EmptyDict

\* C22: in every state each order has exactly one address, and every
\* address and every item row names an order that is in the store
C22_PedidoComEndereco ==
    /\ \A n \in 1..Len(pedidos) : Cardinality(EnderecosDe(enderecos, n)) = 1
    /\ \A i \in 1..Len(enderecos) : enderecos[i].pedido_id \in 1..Len(pedidos)
    /\ \A r \in DOMAIN itens : r[1] \in 1..Len(pedidos)

\* two orders with rows are stored, and a third checkout has just failed at
\* its commit
C22_Witness ==
    /\ Len(pedidos) = 2
    /\ ItensDe(itens, 1) # EmptyDict /\ ItensDe(itens, 2) # EmptyDict
    /\ last.op = "finalizar" /\ last.resp = "erro500"
=============================================================================
